---- MODULE Spec2Model ----
(***************************************************************************)
(* Backup/interchange layer of Kolp Notes (src/src/main/main.ts):          *)
(*   - the OAuth authorization flow   (startGoogleAuth)      -> SpecAuth   *)
(*   - token refresh and remote sync  (google-sync-* handlers) -> SpecSync *)
(*   - the KOLP container codec       (create/parseKolpFile) -> SpecCodec  *)
(* An optional value (T | null | undefined) is a sequence: <<>> or <<x>>.  *)
(***************************************************************************)
EXTENDS Integers, Sequences, FiniteSets, TLC

VARIABLES
    tokenFile,    \* google_tokens.json: <<>> or <<GoogleTokens>>
    credFile,     \* google_credentials.json: <<>> or <<GoogleCredentials>>
    now,          \* Date.now(), milliseconds since the model's epoch
    issued,       \* access tokens minted by the provider so far
    flow,         \* the startGoogleAuth invocation: <<>> or <<[state, cred]>>
    listening,    \* the loopback server accepts connections
    result,       \* the value the flow's promise resolved with: <<>> or <<r>>
    reqs,         \* the requests the server's handler was called for
    timerFired,   \* the 5-minute setTimeout callback has run
    closeCalls,   \* server.close() calls made so far
    second,       \* a startGoogleAuth invocation made while one is pending
    ipc,          \* google-status / google-disconnect calls and their outcomes
    snapshot,     \* codec: the data handed to createKolpFile
    klp,          \* codec: the bytes handed to parseKolpFile
    edit,         \* codec: what happened to the bytes after createKolpFile
    decoded,      \* codec: <<>> or <<the outcome of parseKolpFile(klp)>>
    ticks,        \* sync: clock advances so far
    op,           \* sync: the google-sync-* handler invocation at hand
    ops,          \* sync: handler invocations so far
    drive,        \* sync: the Drive's backup objects, oldest first
    nextId,       \* sync: the id the Drive gives the next object
    localFile,    \* sync: kolp_backup.klp: <<>> or <<bytes>>
    syncResult    \* sync: what the last finished handler returned

storeVars == <<tokenFile, credFile>>
envVars   == <<now, issued>>
authVars  == <<flow, listening, result, reqs, timerFired, closeCalls, second, ipc>>
codecVars == <<snapshot, klp, edit, decoded>>
syncVars  == <<ticks, op, ops, drive, nextId, localFile, syncResult>>
vars      == <<storeVars, envVars, authVars, codecVars, syncVars>>

-----------------------------------------------------------------------------
(* Bounds *)
MaxRequests == 2      \* requests one flow's listener is sent
MaxIssued   == 3      \* access tokens the provider mints
MaxNotes    == 1      \* notes in a snapshot
MaxTicks    == 2      \* clock advances
MaxOps      == 1      \* sync handler invocations
MaxCalls    == 3      \* google-status / google-disconnect calls

-----------------------------------------------------------------------------
(* KOLP container codec.  A Buffer is a sequence of bytes (0..255), a JS    *)
(* string a sequence of code points.  A JSON value is a record              *)
(* [t, s, keys, kids]: t the type ("str", "arr", "obj", "null", "undef"),   *)
(* s a string's characters, keys/kids an object's keys and member values,   *)
(* kids an array's elements.                                                *)

Min(a, b) == IF a < b THEN a ELSE b

JStr(s)         == [t |-> "str",   s |-> s,    keys |-> <<>>, kids |-> <<>>]
JArr(kids)      == [t |-> "arr",   s |-> <<>>, keys |-> <<>>, kids |-> kids]
JObj(keys, kids) == [t |-> "obj",  s |-> <<>>, keys |-> keys, kids |-> kids]
JNull           == [t |-> "null",  s |-> <<>>, keys |-> <<>>, kids |-> <<>>]
JUndef          == [t |-> "undef", s |-> <<>>, keys |-> <<>>, kids |-> <<>>]

\* JSON.stringify's string escapes: \" \\ \n (the model's strings hold no
\* other control character and no lone surrogate)
RECURSIVE EscapeChars(_, _)
EscapeChars(s, i) ==
    IF i > Len(s) THEN <<>>
    ELSE (CASE s[i] = 34 -> <<92, 34>>
            [] s[i] = 92 -> <<92, 92>>
            [] s[i] = 10 -> <<92, 110>>
            [] OTHER     -> <<s[i]>>) \o EscapeChars(s, i + 1)

Quote(s) == <<34>> \o EscapeChars(s, 1) \o <<34>>

RECURSIVE JSONstringify(_), StringifyElems(_, _), StringifyMembers(_, _, _, _)
\* JSON.stringify (main.ts:125): an undefined array element is written as
\* null, an undefined member is left out
JSONstringify(v) ==
    CASE v.t = "str" -> Quote(v.s)
      [] v.t = "arr" -> <<91>> \o StringifyElems(v.kids, 1) \o <<93>>
      [] v.t = "obj" ->
            <<123>> \o StringifyMembers(v.keys, v.kids, 1, TRUE) \o <<125>>
      [] OTHER       -> <<110, 117, 108, 108>>

StringifyElems(kids, i) ==
    IF i > Len(kids) THEN <<>>
    ELSE (IF i > 1 THEN <<44>> ELSE <<>>) \o JSONstringify(kids[i])
            \o StringifyElems(kids, i + 1)

StringifyMembers(keys, kids, i, first) ==
    IF i > Len(kids) THEN <<>>
    ELSE IF kids[i].t = "undef" THEN StringifyMembers(keys, kids, i + 1, first)
    ELSE (IF first THEN <<>> ELSE <<44>>) \o Quote(keys[i]) \o <<58>>
            \o JSONstringify(kids[i])
            \o StringifyMembers(keys, kids, i + 1, FALSE)

ParseFail == [ok |-> FALSE, v |-> JNull, i |-> 0]
ParseOk(v, i) == [ok |-> TRUE, v |-> v, i |-> i]

RECURSIVE ParseString(_, _, _), ParseValue(_, _), ParseElems(_, _, _),
          ParseMembers(_, _, _, _)
\* a string's characters from position i, after the opening quote
ParseString(text, i, acc) ==
    IF i > Len(text) THEN ParseFail
    ELSE IF text[i] = 34 THEN ParseOk(JStr(acc), i + 1)
    ELSE IF text[i] = 92
    THEN IF i + 1 > Len(text) THEN ParseFail
         ELSE IF text[i + 1] = 34 THEN ParseString(text, i + 2, Append(acc, 34))
         ELSE IF text[i + 1] = 92 THEN ParseString(text, i + 2, Append(acc, 92))
         ELSE IF text[i + 1] = 110 THEN ParseString(text, i + 2, Append(acc, 10))
         ELSE ParseFail
    ELSE IF text[i] < 32 THEN ParseFail
    ELSE ParseString(text, i + 1, Append(acc, text[i]))

ParseValue(text, i) ==
    IF i > Len(text) THEN ParseFail
    ELSE CASE text[i] = 34 -> ParseString(text, i + 1, <<>>)
           [] text[i] = 91 ->
                IF i + 1 <= Len(text) /\ text[i + 1] = 93
                THEN ParseOk(JArr(<<>>), i + 2)
                ELSE ParseElems(text, i + 1, <<>>)
           [] text[i] = 123 ->
                IF i + 1 <= Len(text) /\ text[i + 1] = 125
                THEN ParseOk(JObj(<<>>, <<>>), i + 2)
                ELSE ParseMembers(text, i + 1, <<>>, <<>>)
           [] text[i] = 110 ->
                IF SubSeq(text, i, Min(i + 3, Len(text))) = <<110, 117, 108, 108>>
                THEN ParseOk(JNull, i + 4)
                ELSE ParseFail
           [] OTHER -> ParseFail

ParseElems(text, i, acc) ==
    LET r == ParseValue(text, i)
    IN  IF ~r.ok \/ r.i > Len(text) THEN ParseFail
        ELSE IF text[r.i] = 44 THEN ParseElems(text, r.i + 1, Append(acc, r.v))
        ELSE IF text[r.i] = 93 THEN ParseOk(JArr(Append(acc, r.v)), r.i + 1)
        ELSE ParseFail

ParseMembers(text, i, keys, kids) ==
    IF i > Len(text) \/ text[i] # 34 THEN ParseFail
    ELSE LET k == ParseString(text, i + 1, <<>>)
         IN  IF ~k.ok \/ k.i > Len(text) \/ text[k.i] # 58 THEN ParseFail
             ELSE LET r == ParseValue(text, k.i + 1)
                  IN  IF ~r.ok \/ r.i > Len(text) THEN ParseFail
                      ELSE IF text[r.i] = 44
                      THEN ParseMembers(text, r.i + 1, Append(keys, k.v.s),
                                        Append(kids, r.v))
                      ELSE IF text[r.i] = 125
                      THEN ParseOk(JObj(Append(keys, k.v.s), Append(kids, r.v)),
                                   r.i + 1)
                      ELSE ParseFail

\* JSON.parse (main.ts:160) on the grammar JSONstringify writes: strings,
\* arrays, objects and null, without insignificant white space.
\* <<>> stands for the SyntaxError it throws.
JSONparse(text) ==
    LET r == ParseValue(text, 1)
    IN  IF r.ok /\ r.i = Len(text) + 1 THEN <<r.v>> ELSE <<>>

\* Buffer.from(str, 'utf-8') (main.ts:126), one code point
Utf8Char(cp) ==
    IF cp < 128 THEN <<cp>>
    ELSE IF cp < 2048 THEN <<192 + (cp \div 64), 128 + (cp % 64)>>
    ELSE IF cp < 65536
    THEN <<224 + (cp \div 4096), 128 + ((cp \div 64) % 64), 128 + (cp % 64)>>
    ELSE <<240 + (cp \div 262144), 128 + ((cp \div 4096) % 64),
           128 + ((cp \div 64) % 64), 128 + (cp % 64)>>

RECURSIVE Utf8Range(_, _, _)
\* the bytes of chars[lo..hi]
Utf8Range(chars, lo, hi) ==
    IF lo > hi THEN <<>>
    ELSE IF lo = hi THEN Utf8Char(chars[lo])
    ELSE LET mid == (lo + hi) \div 2
         IN  Utf8Range(chars, lo, mid) \o Utf8Range(chars, mid + 1, hi)

\* Buffer.from(str, 'utf-8') (main.ts:126)
Utf8Bytes(chars) == Utf8Range(chars, 1, Len(chars))

\* buffer.toString('utf-8') (main.ts:144, 150, 160): never throws; each byte
\* of an ill-formed sequence decodes to U+FFFD (Node writes one U+FFFD for a
\* truncated sequence's bytes together).  A byte starts a character unless a
\* well-formed multi-byte sequence that begins before it covers it.
Utf8Text(bytes) ==
    LET n == Len(bytes)
        Cont(j) == j >= 1 /\ j <= n /\ bytes[j] >= 128 /\ bytes[j] < 192
        c2(i) == (bytes[i] - 192) * 64 + (bytes[i + 1] - 128)
        c3(i) == (bytes[i] - 224) * 4096 + (bytes[i + 1] - 128) * 64
                   + (bytes[i + 2] - 128)
        c4(i) == (bytes[i] - 240) * 262144 + (bytes[i + 1] - 128) * 4096
                   + (bytes[i + 2] - 128) * 64 + (bytes[i + 3] - 128)
        \* the length of the well-formed sequence that begins at i, or 0
        Width(i) ==
            IF i < 1 \/ i > n THEN 0
            ELSE IF bytes[i] < 128 THEN 1
            ELSE IF bytes[i] >= 194 /\ bytes[i] < 224 /\ Cont(i + 1) THEN 2
            ELSE IF bytes[i] >= 224 /\ bytes[i] < 240 /\ Cont(i + 1)
                    /\ Cont(i + 2) /\ c3(i) >= 2048
                    /\ ~(c3(i) >= 55296 /\ c3(i) < 57344) THEN 3
            ELSE IF bytes[i] >= 240 /\ bytes[i] < 245 /\ Cont(i + 1)
                    /\ Cont(i + 2) /\ Cont(i + 3) /\ c4(i) >= 65536
                    /\ c4(i) < 1114112 THEN 4
            ELSE 0
        Starts(i) == ~(\E d \in 1..3 : Width(i - d) > d)
        starts == SelectSeq([k \in 1..n |-> k], Starts)
        CodePoint(i) ==
            CASE Width(i) = 1 -> bytes[i]
              [] Width(i) = 2 -> c2(i)
              [] Width(i) = 3 -> c3(i)
              [] Width(i) = 4 -> c4(i)
              [] OTHER        -> 65533
    IN  [j \in 1..Len(starts) |-> CodePoint(starts[j])]

HexDigit(d) == IF d < 10 THEN 48 + d ELSE 87 + d

Hex4(n) == <<HexDigit((n \div 4096) % 16), HexDigit((n \div 256) % 16),
             HexDigit((n \div 16) % 16), HexDigit(n % 16)>>

RECURSIVE PolyHash(_, _, _, _)
\* [h, p]: the checksum of bytes[lo..hi] with multiplier w, and w^(hi-lo+1),
\* both modulo the prime 32749
PolyHash(bytes, lo, hi, w) ==
    IF lo > hi THEN [h |-> 0, p |-> 1]
    ELSE IF lo = hi THEN [h |-> (bytes[lo] + 1) % 32749, p |-> w % 32749]
    ELSE LET mid == (lo + hi) \div 2
             l == PolyHash(bytes, lo, mid, w)
             r == PolyHash(bytes, mid + 1, hi, w)
         IN  [h |-> ((l.h * r.p) + r.h) % 32749, p |-> (l.p * r.p) % 32749]

\* crypto.createHash('sha256').update(b).digest('hex') (main.ts:128, 155):
\* 64 lower-case hex characters.  SHA-256 itself is stood in for by two
\* polynomial checksums over a prime field; like SHA-256 in practice, the
\* digest of a buffer changes whenever one byte of the buffer changes.
Sha256Hex(bytes) ==
    LET a == PolyHash(bytes, 1, Len(bytes), 257)
        b == PolyHash(bytes, 1, Len(bytes), 263)
        word == Hex4((a.h + a.p) % 32749) \o Hex4((b.h + (7 * b.p)) % 32749)
    IN  word \o word \o word \o word \o word \o word \o word \o word

RECURSIVE LEBytes(_, _)
\* writeUInt32LE / writeBigInt64LE of a non-negative value (main.ts:135, 137)
LEBytes(n, width) ==
    IF width = 0 THEN <<>> ELSE <<n % 256>> \o LEBytes(n \div 256, width - 1)

RECURSIVE LEValue(_, _, _)
\* readUInt32LE / readBigInt64LE (main.ts:149, 151); every value from
\* 4194304 on reads as 4194304 (no buffer of the model is that long)
LEValue(bytes, k, acc) ==
    IF k = 0 THEN acc
    ELSE LEValue(bytes, k - 1,
                 IF acc >= 16384 THEN 4194304 ELSE acc * 256 + bytes[k])

\* buffer.slice(start, end): clipped to the buffer, never throws
Slice(buffer, start, end) == SubSeq(buffer, start + 1, Min(end, Len(buffer)))

RECURSIVE LexLeq(_, _, _)
LexLeq(a, b, i) ==
    IF i > Len(a) THEN TRUE
    ELSE IF a[i] # b[i] THEN a[i] < b[i]
    ELSE LexLeq(a, b, i + 1)

\* new Date(t).toISOString() (main.ts:164) throws a RangeError unless
\* |t| <= 8.64e15; le8 is t as written by writeBigInt64LE
ValidTime(le8) ==
    LET be == [k \in 1..8 |-> le8[9 - k]]
    IN  IF be[1] < 128 THEN LexLeq(be, <<0, 30, 178, 8, 194, 220, 0, 0>>, 1)
        ELSE LexLeq(<<255, 225, 77, 247, 61, 36, 0, 0>>, be, 1)

KOLP_MAGIC == <<75, 79, 76, 80>>
KOLP_VERSION == 1

KolpContainerBigEndian(compressed, timestamp) ==
    LET checksum == Sha256Hex(compressed)
        n == Len(compressed)
    IN  KOLP_MAGIC \o <<KOLP_VERSION>> \o LEBytes(timestamp, 8)
          \o SubSeq(checksum, 1, 32)
          \o <<(n \div 16777216) % 256, (n \div 65536) % 256,
               (n \div 256) % 256, n % 256>>
          \o compressed

\* main.ts:128-139: header and payload
KolpContainer(compressed, timestamp) ==
    LET checksum == Sha256Hex(compressed)
        header == KOLP_MAGIC \o <<KOLP_VERSION>> \o LEBytes(timestamp, 8)
                    \o SubSeq(checksum, 1, 32) \o LEBytes(Len(compressed), 4)
    IN  header \o compressed

createKolpFileCharLength(data, timestamp) ==
    LET jsonData == JSONstringify(data)
        compressed == Utf8Bytes(jsonData)
        checksum == Sha256Hex(compressed)
    IN  KOLP_MAGIC \o <<KOLP_VERSION>> \o LEBytes(timestamp, 8)
          \o SubSeq(checksum, 1, 32) \o LEBytes(Len(jsonData), 4) \o compressed

\* main.ts:124-140; timestamp is the Date.now() it reads
createKolpFile(data, timestamp) ==
    KolpContainer(Utf8Bytes(JSONstringify(data)), timestamp)

RECURSIVE JsonRoundTrip(_), DefinedMembers(_, _)
\* the indices of an object's members whose value is not undefined
DefinedMembers(kids, i) ==
    IF i > Len(kids) THEN <<>>
    ELSE (IF kids[i].t = "undef" THEN <<>> ELSE <<i>>) \o DefinedMembers(kids, i + 1)

\* what JSON.parse(JSON.stringify(v)) is, by ECMA-262's SerializeJSONObject /
\* SerializeJSONArray: undefined members disappear, undefined elements
\* become null
JsonRoundTrip(v) ==
    CASE v.t = "arr" ->
            JArr([k \in 1..Len(v.kids) |->
                    IF v.kids[k].t = "undef" THEN JNull ELSE JsonRoundTrip(v.kids[k])])
      [] v.t = "obj" ->
            LET keep == DefinedMembers(v.kids, 1)
            IN  JObj([k \in 1..Len(keep) |-> v.keys[keep[k]]],
                     [k \in 1..Len(keep) |-> JsonRoundTrip(v.kids[keep[k]])])
      [] OTHER -> v

Rejected(msg) == [file |-> <<>>, error |-> msg]

\* main.ts:160-167: the payload is parsed and the result assembled
ParsedFile(buffer, dataBuffer) ==
    LET data == JSONparse(Utf8Text(dataBuffer))
    IN  IF data = <<>> THEN Rejected("Unexpected token in JSON")
        ELSE IF ~ValidTime(Slice(buffer, 5, 13)) THEN Rejected("Invalid time value")
        ELSE [file |-> <<[version |-> buffer[5],
                          timestamp |-> LEValue(Slice(buffer, 5, 13), 8, 0),
                          checksum |-> Utf8Text(Slice(buffer, 13, 45)),
                          data |-> data[1]]>>,
              error |-> ""]

ParseOutcomeNoChecksum(buffer) ==
    IF Utf8Text(Slice(buffer, 0, 4)) # <<75, 79, 76, 80>>
    THEN Rejected("Invalid KOLP file format")
    ELSE IF Len(buffer) < 49
    THEN Rejected("The value of \"offset\" is out of range")
    ELSE ParsedFile(buffer,
             Slice(buffer, 49, 49 + LEValue(Slice(buffer, 45, 49), 4, 0)))

ParseOutcomePartial(buffer) ==
    IF Utf8Text(Slice(buffer, 0, 4)) # <<75, 79, 76, 80>>
    THEN Rejected("Invalid KOLP file format")
    ELSE IF Len(buffer) < 49
    THEN Rejected("The value of \"offset\" is out of range")
    ELSE
    LET dataBuffer == Slice(buffer, 49, 49 + LEValue(Slice(buffer, 45, 49), 4, 0))
    IN  IF JSONparse(Utf8Text(dataBuffer)) = <<>>
        THEN [file |-> <<[version |-> buffer[5],
                          timestamp |-> LEValue(Slice(buffer, 5, 13), 8, 0),
                          checksum |-> Utf8Text(Slice(buffer, 13, 45)),
                          data |-> JObj(<<>>, <<>>)]>>,
              error |-> ""]
        ELSE ParsedFile(buffer, dataBuffer)

ParseOutcomeNoMagic(buffer) ==
    IF Len(buffer) < 49
    THEN Rejected("The value of \"offset\" is out of range")
    ELSE
    LET dataBuffer == Slice(buffer, 49, 49 + LEValue(Slice(buffer, 45, 49), 4, 0))
    IN  IF Utf8Text(Slice(buffer, 13, 45)) # SubSeq(Sha256Hex(dataBuffer), 1, 32)
        THEN Rejected("Checksum verification failed")
        ELSE ParsedFile(buffer, dataBuffer)

\* main.ts:142-172: what parseKolpFile returns (file: <<>> is null) and the
\* message of the error it logs.  The three reads at offsets 4, 5 and 45
\* throw a RangeError on a buffer shorter than 5, 13 and 49 bytes.
ParseOutcome(buffer) ==
    IF Utf8Text(Slice(buffer, 0, 4)) # <<75, 79, 76, 80>>
    THEN Rejected("Invalid KOLP file format")
    ELSE IF Len(buffer) < 49
    THEN Rejected("The value of \"offset\" is out of range")
    ELSE
    LET checksumStored == Utf8Text(Slice(buffer, 13, 45))
        dataLength == LEValue(Slice(buffer, 45, 49), 4, 0)
        dataBuffer == Slice(buffer, 49, 49 + dataLength)
        checksumCalculated == SubSeq(Sha256Hex(dataBuffer), 1, 32)
    IN  IF checksumStored # checksumCalculated
        THEN Rejected("Checksum verification failed")
        ELSE ParsedFile(buffer, dataBuffer)

parseKolpFile(buffer) == ParseOutcome(buffer).file

-----------------------------------------------------------------------------
(* Credential store *)

NoParam == "<undefined>"

Credentials == { [clientId |-> "cidA", clientSecret |-> "secA"],
                 [clientId |-> "cidB", clientSecret |-> "secB"] }

ExpiresIn == {1, 61}       \* expires_in values (seconds) the provider answers

saveTokens(tokens) == <<tokens>>

saveCredentials(credentials) == <<credentials>>

\* no OAuth flow has been started
IdleAuth ==
    /\ flow = <<>>
    /\ listening = FALSE
    /\ result = <<>>
    /\ reqs = <<>>
    /\ timerFired = FALSE
    /\ closeCalls = 0
    /\ second = <<>>
    /\ ipc = <<>>

\* the codec has been handed nothing
IdleCodec ==
    /\ snapshot = JNull
    /\ klp = <<>>
    /\ edit = "none"
    /\ decoded = <<>>

-----------------------------------------------------------------------------
(* Token refresh and the remote sync operations.  One sync handler runs at  *)
(* a time (the caller serializes them); op is its invocation record: the    *)
(* handler's local variables, its position, and what it has done so far.    *)

\* the snapshots the renderer hands to google-sync-upload
SyncSnapshots ==
    { JObj(<< <<110, 111, 116, 101, 115>> >>, <<JArr(<<JStr(<<233>>)>>)>>) }

\* what a Drive object can hold before the first upload: a container another
\* device made, one damaged in its payload, one whose payload is valid for
\* its checksum but no JSON, and bytes that are no container
ForeignContents ==
    { createKolpFile(JObj(<< <<110, 111, 116, 101, 115>> >>, <<JArr(<<>>)>>), 0),
      [createKolpFile(JObj(<< <<110, 111, 116, 101, 115>> >>, <<JArr(<<>>)>>), 0)
          EXCEPT ![52] = 79],
      KolpContainer(<<123, 110>>, 0),
      <<123, 125>> }

\* the body of a non-2xx answer to the media download
ErrorBody == <<123, 34, 101, 34, 58, 110, 117, 108, 108, 125>>

TickSteps == {1, 999}      \* milliseconds

\* tokenResponse.refresh_token: present, or left out by the provider
RefreshTokens == {"rt", NoParam}

RefreshOutcomes == {"tokens", "notoken", "neterr", "badjson"}

IdleOp ==
    [kind |-> "none", pc |-> "idle", token |-> 0, rtokens |-> <<>>,
     data |-> JNull, kolpBuffer |-> <<>>, fileId |-> 0,
     startNow |-> 0, startExpiry |-> <<>>, refreshCalls |-> 0,
     refreshDone |-> FALSE, remoteCalls |-> 0, localAtStart |-> <<>>,
     newToken |-> "none", steps |-> <<>>, auth |-> <<>>, failed |-> FALSE]

SyncFailed(msg) ==
    [success |-> FALSE, error |-> msg, fileId |-> 0, data |-> <<>>]

NeedsRefreshStrict(t, expiry_date) == t > expiry_date - 60000

\* main.ts:673, 705
NeedsRefresh(t, expiry_date) == t >= expiry_date - 60000

\* what fs.unlinkSync does to the token file
UnlinkOutcomes == {"ok", "EPERM"}

deleteTokensUnguarded(file, unlink) ==
    [file  |-> IF unlink = "ok" /\ file # <<>> THEN <<>> ELSE file,
     threw |-> unlink # "ok" \/ file = <<>>]

\* main.ts:44-48: the file after the call, and whether the call threw;
\* unlinkSync runs only when existsSync found the file
deleteTokens(file, unlink) ==
    IF file # <<>>
    THEN [file  |-> IF unlink = "ok" THEN <<>> ELSE file,
          threw |-> unlink # "ok"]
    ELSE [file |-> file, threw |-> FALSE]

\* the user's completed OAuth flow (main.ts:212-220), the credentials write
\* possibly failing after the token write; it happens once, before the last
\* handler runs
Authorize(cred, refreshToken, expiresIn, persist) ==
    /\ op.pc \in {"idle", "done"}
    /\ ops < MaxOps
    /\ tokenFile = <<>>
    /\ issued = 0
    /\ issued' = issued + 1
    /\ tokenFile' = saveTokens([access_token |-> issued + 1,
                                refresh_token |-> refreshToken,
                                expiry_date |-> now + expiresIn * 1000,
                                email |-> "user@example.com"])
    /\ credFile' = IF persist = "ok" THEN saveCredentials(cred) ELSE credFile
    /\ UNCHANGED <<now, ticks, op, ops, drive, nextId, localFile, syncResult,
                   authVars, codecVars>>

\* main.ts:661-664
Disconnect ==
    /\ tokenFile # <<>>
    /\ tokenFile' = deleteTokens(tokenFile, "ok").file
    /\ UNCHANGED <<credFile, envVars, syncVars, authVars, codecVars>>

Tick(d) ==
    /\ ticks < MaxTicks
    /\ ops < MaxOps \/ op.pc # "done"
    /\ ticks' = ticks + 1
    /\ now' = now + d
    /\ UNCHANGED <<storeVars, issued, op, ops, drive, nextId, localFile,
                   syncResult, authVars, codecVars>>

\* the handler ends: its promise resolves with res
Finish(o, res) ==
    /\ op' = [o EXCEPT !.pc = "done"]
    /\ syncResult' = <<res>>

FirstRemoteCallNoLocalWrite(o, accessToken) ==
    /\ op' = [o EXCEPT !.pc = "finding", !.token = accessToken,
                       !.kolpBuffer = IF o.kind = "upload"
                                      THEN createKolpFile(o.data, now) ELSE <<>>,
                       !.remoteCalls = 1, !.auth = <<accessToken>>,
                       !.steps = o.steps \o (IF o.kind = "upload"
                                             THEN <<"write", "find">>
                                             ELSE <<"find">>)]
    /\ UNCHANGED <<localFile, syncResult>>

\* main.ts:681-684 (upload) and 713 (download): with the access token in
\* hand, the first remote request goes out
FirstRemoteCall(o, accessToken) ==
    IF o.kind = "upload"
    THEN LET kolpBuffer == createKolpFile(o.data, now)
         IN  /\ localFile' = <<kolpBuffer>>
             /\ op' = [o EXCEPT !.pc = "finding", !.token = accessToken,
                                !.kolpBuffer = kolpBuffer, !.remoteCalls = 1, !.auth = <<accessToken>>,
                                !.steps = o.steps \o <<"write", "find">>]
             /\ UNCHANGED syncResult
    ELSE /\ op' = [o EXCEPT !.pc = "finding", !.token = accessToken,
                            !.remoteCalls = 1, !.auth = <<accessToken>>,
                            !.steps = Append(o.steps, "find")]
         /\ UNCHANGED <<localFile, syncResult>>

CanRefreshWithoutCredentials(tokens, credentials) ==
    tokens # <<>> /\ tokens[1].refresh_token # NoParam

\* main.ts:319: refreshAccessToken goes on to send its request
CanRefresh(tokens, credentials) ==
    tokens # <<>> /\ tokens[1].refresh_token # NoParam /\ credentials # <<>>

\* main.ts:666-684 and 698-713 up to the first await, with the synchronous
\* head of refreshAccessToken (316-319)
SyncStart(kind, data) ==
    /\ op.pc \in {"idle", "done"}
    /\ ops < MaxOps
    /\ ops' = ops + 1
    /\ LET o == [IdleOp EXCEPT !.kind = kind, !.data = data,
                               !.startNow = now, !.localAtStart = localFile,
                               !.startExpiry =
                                   IF tokenFile = <<>> THEN <<>>
                                   ELSE <<tokenFile[1].expiry_date>>]
       IN  IF tokenFile = <<>>
           THEN /\ Finish(o, SyncFailed("Not authenticated"))
                /\ UNCHANGED localFile
           ELSE IF NeedsRefresh(now, tokenFile[1].expiry_date)
           THEN IF ~CanRefresh(tokenFile, credFile)
                THEN /\ Finish([o EXCEPT !.refreshCalls = 1,
                                         !.refreshDone = TRUE,
                                         !.newToken = "null"],
                               SyncFailed("Token refresh failed"))
                     /\ UNCHANGED localFile
                ELSE /\ op' = [o EXCEPT !.pc = "refreshing", !.refreshCalls = 1,
                                        !.rtokens = tokenFile,
                                        !.steps = <<"refresh">>]
                     /\ UNCHANGED <<localFile, syncResult>>
           ELSE FirstRemoteCall(o, tokenFile[1].access_token)
    /\ UNCHANGED <<storeVars, envVars, ticks, drive, nextId, authVars, codecVars>>

RefreshResponseIgnoresNull(outcome, expiresIn) ==
    /\ op.pc = "refreshing"
    /\ IF outcome = "tokens"
       THEN /\ issued < MaxIssued
            /\ issued' = issued + 1
            /\ tokenFile' = saveTokens([op.rtokens[1] EXCEPT
                                !.access_token = issued + 1,
                                !.expiry_date = now + expiresIn * 1000])
            /\ FirstRemoteCall([op EXCEPT !.refreshDone = TRUE,
                                          !.newToken = "token"], issued + 1)
       ELSE /\ FirstRemoteCall([op EXCEPT !.refreshDone = TRUE,
                                          !.newToken = "null"],
                               op.rtokens[1].access_token)
            /\ UNCHANGED <<tokenFile, issued>>
    /\ UNCHANGED <<credFile, now, ticks, ops, drive, nextId, authVars, codecVars>>

RefreshResponseKeepsExpiry(outcome, expiresIn) ==
    /\ op.pc = "refreshing"
    /\ IF outcome = "tokens"
       THEN /\ issued < MaxIssued
            /\ issued' = issued + 1
            /\ tokenFile' = saveTokens([op.rtokens[1] EXCEPT
                                !.access_token = issued + 1])
            /\ FirstRemoteCall([op EXCEPT !.refreshDone = TRUE,
                                          !.newToken = "token"], issued + 1)
       ELSE /\ Finish([op EXCEPT !.refreshDone = TRUE, !.newToken = "null"],
                      SyncFailed("Token refresh failed"))
            /\ UNCHANGED <<tokenFile, issued, localFile>>
    /\ UNCHANGED <<credFile, now, ticks, ops, drive, nextId, authVars, codecVars>>

RefreshResponseStaleToken(outcome, expiresIn) ==
    /\ op.pc = "refreshing"
    /\ IF outcome = "tokens"
       THEN /\ issued < MaxIssued
            /\ issued' = issued + 1
            /\ tokenFile' = saveTokens([op.rtokens[1] EXCEPT
                                !.access_token = issued + 1,
                                !.expiry_date = now + expiresIn * 1000])
            /\ FirstRemoteCall([op EXCEPT !.refreshDone = TRUE,
                                          !.newToken = "token"],
                               op.rtokens[1].access_token)
       ELSE /\ Finish([op EXCEPT !.refreshDone = TRUE, !.newToken = "null"],
                      SyncFailed("Token refresh failed"))
            /\ UNCHANGED <<tokenFile, issued, localFile>>
    /\ UNCHANGED <<credFile, now, ticks, ops, drive, nextId, authVars, codecVars>>

\* main.ts:337-357: the token endpoint answered the refresh, or the request
\* failed; then main.ts:675-684 / 707-713
RefreshResponse(outcome, expiresIn) ==
    /\ op.pc = "refreshing"
    /\ IF outcome = "tokens"
       THEN /\ issued < MaxIssued
            /\ issued' = issued + 1
            /\ tokenFile' = saveTokens([op.rtokens[1] EXCEPT
                                !.access_token = issued + 1,
                                !.expiry_date = now + expiresIn * 1000])
            \* tokens = loadTokens()! reads the record written just above
            /\ FirstRemoteCall([op EXCEPT !.refreshDone = TRUE,
                                          !.newToken = "token"], issued + 1)
       ELSE /\ Finish([op EXCEPT !.refreshDone = TRUE, !.newToken = "null"],
                      SyncFailed("Token refresh failed"))
            /\ UNCHANGED <<tokenFile, issued, localFile>>
    /\ UNCHANGED <<credFile, now, ticks, ops, drive, nextId, authVars, codecVars>>

\* findKolpFileInDrive (main.ts:410-437): the newest backup's id, or null
\* (<<>>) when there is none and when the request fails
FoundId(outcome) ==
    IF outcome = "ok" /\ drive # <<>> THEN <<drive[Len(drive)].id>> ELSE <<>>

\* main.ts:684-690 (upload) and 713-718 (download): find answered
FindResponse(outcome) ==
    /\ op.pc = "finding"
    /\ LET found == FoundId(outcome)
       IN  IF found # <<>>
           THEN /\ op' = [op EXCEPT !.fileId = found[1],
                                    !.failed = (outcome # "ok"),
                                    !.remoteCalls = op.remoteCalls + 1,
                        !.auth = Append(op.auth, op.token),
                                    !.steps = Append(op.steps,
                                                 IF op.kind = "upload" THEN "delete"
                                                 ELSE "download"),
                                    !.pc = IF op.kind = "upload" THEN "deleting"
                                           ELSE "downloading"]
                /\ UNCHANGED syncResult
           ELSE IF op.kind = "upload"
           THEN /\ op' = [op EXCEPT !.pc = "uploading",
                                    !.failed = (outcome # "ok"),
                                    !.remoteCalls = op.remoteCalls + 1,
                        !.auth = Append(op.auth, op.token),
                                    !.steps = Append(op.steps, "upload")]
                /\ UNCHANGED syncResult
           ELSE Finish([op EXCEPT !.failed = (outcome # "ok")],
                       SyncFailed("No backup found in Google Drive"))
    /\ UNCHANGED <<storeVars, envVars, ticks, ops, drive, nextId, localFile,
                   authVars, codecVars>>

\* the Drive without the object id
Without(objects, id) == SelectSeq(objects, LAMBDA f : f.id # id)

\* deleteFileFromDrive (main.ts:457-473) answered; main.ts:686 drops its
\* result, and the upload goes out (689-690)
DeleteResponse(outcome) ==
    /\ op.pc = "deleting"
    /\ drive' = IF outcome = "ok" THEN Without(drive, op.fileId) ELSE drive
    /\ op' = [op EXCEPT !.pc = "uploading", !.remoteCalls = op.remoteCalls + 1,
                        !.auth = Append(op.auth, op.token),
                        !.failed = (op.failed \/ outcome # "ok"),
                        !.steps = Append(op.steps, "upload")]
    /\ UNCHANGED <<storeVars, envVars, ticks, ops, nextId, localFile,
                   syncResult, authVars, codecVars>>

\* uploadToGoogleDrive (main.ts:363-408) answered; main.ts:692
UploadResponse(outcome) ==
    /\ op.pc = "uploading"
    /\ CASE outcome = "ok" ->
              /\ drive' = Append(drive, [id |-> nextId, content |-> op.kolpBuffer])
              /\ nextId' = nextId + 1
              /\ Finish(op, [success |-> TRUE, error |-> "", fileId |-> nextId,
                             data |-> <<>>])
         [] outcome = "rejected" ->
              /\ Finish([op EXCEPT !.failed = TRUE], SyncFailed("Upload failed"))
              /\ UNCHANGED <<drive, nextId>>
         [] OTHER ->
              /\ Finish([op EXCEPT !.failed = TRUE], SyncFailed("socket hang up"))
              /\ UNCHANGED <<drive, nextId>>
    /\ UNCHANGED <<storeVars, envVars, ticks, ops, localFile, authVars, codecVars>>

\* downloadFromGoogleDrive (main.ts:439-455): the body of whatever answer
\* came, its status unread; null (<<>>) on a connection error
Downloaded(outcome, id) ==
    CASE outcome = "ok" ->
            <<(CHOOSE f \in {drive[k] : k \in 1..Len(drive)} : f.id = id).content>>
      [] outcome = "httperr" -> <<ErrorBody>>
      [] OTHER -> <<>>

SyncDownloadTailWriteFirst(o, buffer) ==
    IF buffer = <<>>
    THEN /\ Finish(o, SyncFailed("Download failed"))
         /\ UNCHANGED localFile
    ELSE /\ localFile' = buffer
         /\ LET parsed == parseKolpFile(buffer[1])
            IN  IF parsed = <<>>
                THEN Finish(o, SyncFailed("Invalid KOLP file"))
                ELSE Finish(o, [success |-> TRUE, error |-> "", fileId |-> 0,
                                 data |-> parsed])

\* main.ts:719-730: the rest of google-sync-download once the download
\* answered with buffer
SyncDownloadTail(o, buffer) ==
    IF buffer = <<>>
    THEN /\ Finish(o, SyncFailed("Download failed"))
         /\ UNCHANGED localFile
    ELSE LET parsed == parseKolpFile(buffer[1])
         IN  IF parsed = <<>>
             THEN /\ Finish(o, SyncFailed("Invalid KOLP file"))
                  /\ UNCHANGED localFile
             ELSE /\ localFile' = buffer
                  /\ Finish(o, [success |-> TRUE, error |-> "", fileId |-> 0,
                                 data |-> parsed])

DownloadResponse(outcome) ==
    /\ op.pc = "downloading"
    /\ SyncDownloadTail([op EXCEPT !.failed = (outcome # "ok")],
                        Downloaded(outcome, op.fileId))
    /\ UNCHANGED <<storeVars, envVars, ticks, ops, drive, nextId, authVars,
                   codecVars>>

IdleSync ==
    /\ ticks = 0
    /\ op = IdleOp
    /\ ops = 0
    /\ drive = <<>>
    /\ nextId = 1
    /\ localFile = <<>>
    /\ syncResult = <<>>

\* nothing is stored, no operation has run; the Drive holds at most one
\* backup object, the local backup file holds an earlier backup
InitSync ==
    /\ tokenFile = <<>>
    /\ credFile = <<>>
    /\ now = 0
    /\ issued = 0
    /\ ticks = 0
    /\ op = IdleOp
    /\ ops = 0
    /\ nextId = 1
    /\ syncResult = <<>>
    /\ drive \in {<<>>} \cup {<<[id |-> 0, content |-> c]>> : c \in ForeignContents}
    /\ localFile = <<createKolpFile(JObj(<<>>, <<>>), 0)>>
    /\ IdleAuth
    /\ IdleCodec

NextSync ==
    \/ \E rt \in RefreshTokens, e \in ExpiresIn, persist \in {"ok", "credsFail"} :
          Authorize([clientId |-> "cidA", clientSecret |-> "secA"], rt, e, persist)
    \/ Disconnect
    \/ \E d \in TickSteps : Tick(d)
    \/ \E data \in SyncSnapshots : SyncStart("upload", data)
    \/ SyncStart("download", JNull)
    \/ \E outcome \in RefreshOutcomes, e \in ExpiresIn : RefreshResponse(outcome, e)
    \/ \E outcome \in {"ok", "fail"} : FindResponse(outcome)
    \/ \E outcome \in {"ok", "fail"} : DeleteResponse(outcome)
    \/ \E outcome \in {"ok", "rejected", "neterr"} : UploadResponse(outcome)
    \/ \E outcome \in {"ok", "httperr", "neterr"} : DownloadResponse(outcome)

SpecSync == InitSync /\ [][NextSync]_vars

\* C5: a sync handler that found stored tokens whose expiry lay more than
\* 60 s after the clock when it started has not called refreshAccessToken;
\* one whose expiry lay within 60 s (the 60 s mark included) or in the past
\* has called it once, and it had returned before the handler's first
\* request to the Drive went out.
RefreshSkipPolicy ==
    (op.pc # "idle" /\ op.startExpiry # <<>>) =>
        IF op.startExpiry[1] - op.startNow > 60000
        THEN op.refreshCalls = 0 /\ ~op.refreshDone
        ELSE op.refreshCalls = 1 /\ (op.remoteCalls > 0 => op.refreshDone)

\* a download started exactly 60 s before the expiry, refreshed, and went on
\* to the Drive
RefreshSkipWitness ==
    /\ op.kind = "download"
    /\ op.startExpiry # <<>>
    /\ op.startExpiry[1] - op.startNow = 60000
    /\ op.refreshCalls = 1
    /\ op.refreshDone
    /\ op.remoteCalls > 0

\* C15: Token refresh success.  The step in which the token endpoint answers
\* a refresh with an access token stores the record the refresh started from
\* with that access token and the expiry now + expires_in, its refresh token
\* and email as they were, leaves the credentials alone, and hands the new
\* access token to the handler.
RefreshSuccess ==
    [][(op.pc = "refreshing" /\ issued' = issued + 1) =>
          /\ tokenFile' # <<>>
          /\ tokenFile'[1].access_token = issued'
          /\ tokenFile'[1].access_token # op.rtokens[1].access_token
          /\ \E e \in ExpiresIn : tokenFile'[1].expiry_date = now + e * 1000
          /\ tokenFile'[1].refresh_token = op.rtokens[1].refresh_token
          /\ tokenFile'[1].email = op.rtokens[1].email
          /\ credFile' = credFile
          /\ op'.token = issued']_vars

\* a refresh answered after the clock had moved on stored an expiry counted
\* from the answer, not from the handler's start
RefreshSuccessWitness ==
    /\ op.refreshDone
    /\ op.pc = "finding"
    /\ tokenFile # <<>>
    /\ tokenFile[1].access_token = op.token
    /\ op.token # op.rtokens[1].access_token
    /\ tokenFile[1].expiry_date = now + 61000
    /\ now > op.startNow

\* C16: Token refresh failure.  A refresh called while the stored record has
\* no refresh token, or while no credentials are stored, returns null in the
\* same step without a request going out; a refresh whose request failed or
\* was answered without an access token returns null; in both cases the
\* token file is as it was and the handler returns 'Token refresh failed'.
RefreshFailure ==
    /\ [][(ops' = ops + 1 /\ op'.refreshCalls = 1
              /\ (tokenFile[1].refresh_token = NoParam \/ credFile = <<>>)) =>
             /\ op'.newToken = "null"
             /\ op'.steps = <<>>
             /\ op'.pc = "done"
             /\ syncResult' = <<SyncFailed("Token refresh failed")>>
             /\ tokenFile' = tokenFile
             /\ issued' = issued]_vars
    /\ [][(op.pc = "refreshing" /\ op'.newToken = "null") =>
             /\ op'.pc = "done"
             /\ op'.steps = <<"refresh">>
             /\ syncResult' = <<SyncFailed("Token refresh failed")>>
             /\ tokenFile' = tokenFile]_vars

\* a refresh was due, credentials were stored, the record had no refresh
\* token: the handler failed without any request
RefreshFailureWitness ==
    /\ op.pc = "done"
    /\ op.newToken = "null"
    /\ op.steps = <<>>
    /\ tokenFile # <<>>
    /\ tokenFile[1].refresh_token = NoParam
    /\ credFile # <<>>
    /\ syncResult = <<SyncFailed("Token refresh failed")>>

\* C17: No remote call without a valid token.  A sync handler that found no
\* token record has returned 'Not authenticated', and one whose refresh
\* returned null has returned 'Token refresh failed'; neither has sent a
\* find, delete, upload or download request or written the local backup.
NoRemoteCallWithoutToken ==
    (op.pc # "idle" /\ (op.startExpiry = <<>> \/ op.newToken = "null")) =>
        /\ op.pc = "done"
        /\ syncResult = <<SyncFailed(IF op.startExpiry = <<>>
                                     THEN "Not authenticated"
                                     ELSE "Token refresh failed")>>
        /\ \A k \in 1..Len(op.steps) : op.steps[k] = "refresh"
        /\ op.remoteCalls = 0
        /\ localFile = op.localAtStart

\* an upload whose refresh request failed returned 'Token refresh failed'
\* with the local backup untouched
NoRemoteCallWitness ==
    /\ op.kind = "upload"
    /\ op.pc = "done"
    /\ op.newToken = "null"
    /\ op.steps = <<"refresh">>
    /\ syncResult = <<SyncFailed("Token refresh failed")>>
    /\ localFile = op.localAtStart

\* the steps of a handler after its refresh, if it made one
AfterRefresh(steps) ==
    IF steps # <<>> /\ steps[1] = "refresh" THEN Tail(steps) ELSE steps

\* the step a handler took last
LastStep(steps) == IF steps = <<>> THEN "none" ELSE steps[Len(steps)]

\* C18: Sync-upload ordering.  One google-sync-upload run writes the local
\* copy, then sends find, then delete only if find returned an id, then
\* upload, one request in flight at a time; in the step that takes the old
\* object off the Drive the local backup file already holds the new
\* container, and the object uploaded is that container.
UploadOrdering ==
    /\ [](op.kind = "upload" =>
             /\ \E n \in 0..4 :
                    \/ AfterRefresh(op.steps) =
                          SubSeq(<<"write", "find", "delete", "upload">>, 1, n)
                    \/ AfterRefresh(op.steps) =
                          SubSeq(<<"write", "find", "upload">>, 1, n)
             /\ (\E k \in 1..Len(op.steps) : op.steps[k] = "delete") <=>
                    op.pc = "deleting" \/ op.remoteCalls = 3
             /\ op.pc = "finding" => LastStep(op.steps) = "find"
             /\ op.pc = "deleting" => LastStep(op.steps) = "delete"
             /\ op.pc = "uploading" => LastStep(op.steps) = "upload")
    /\ [][(op.kind = "upload" /\ Len(drive') < Len(drive)) =>
              /\ op.pc = "deleting"
              /\ \E k \in 1..Len(drive) : drive[k].id = op.fileId
              /\ localFile = <<op.kolpBuffer>>
              /\ localFile' = localFile
              /\ parseKolpFile(localFile[1]) # <<>>
              /\ parseKolpFile(localFile[1])[1].data = JsonRoundTrip(op.data)]_vars
    /\ [][(op.kind = "upload" /\ Len(drive') > Len(drive)) =>
              /\ op.pc = "uploading"
              /\ drive'[Len(drive')].content = localFile[1]]_vars

\* the old object is gone, the upload is in flight, the local backup holds
\* the new container
UploadOrderingWitness ==
    /\ op.kind = "upload"
    /\ op.pc = "uploading"
    /\ AfterRefresh(op.steps) = <<"write", "find", "delete", "upload">>
    /\ drive = <<>>
    /\ localFile = <<op.kolpBuffer>>
    /\ localFile # op.localAtStart

\* C19: Remote failures surface as a failed result.  A sync handler that
\* returned success made no find, delete, upload or download request that
\* failed.
SuccessOnlyIfAllCallsOk ==
    (op.pc = "done" /\ syncResult[1].success) => ~op.failed

\* C6: the Drive, which began with at most one backup object, never holds
\* more than one, whatever the find, delete and upload requests answer.
AtMostOneBackup == Len(drive) <= 1

\* C7: while google-sync-download runs and after it returned a failure the
\* local backup file is what it was when the handler started; after it
\* returned success the file holds the bytes of the Drive object it found,
\* they decode, and the result carries the decoded snapshot.
LocalCopyProtected ==
    (op.kind = "download" /\ op.pc # "idle") =>
        IF op.pc = "done" /\ syncResult[1].success
        THEN /\ localFile # <<>>
             /\ \E k \in 1..Len(drive) : /\ drive[k].id = op.fileId
                                         /\ drive[k].content = localFile[1]
             /\ parseKolpFile(localFile[1]) # <<>>
             /\ syncResult[1].data = parseKolpFile(localFile[1])
        ELSE localFile = op.localAtStart

\* a download whose bytes the codec rejected returned a failure and left the
\* earlier local backup in place
LocalCopyWitness ==
    /\ op.kind = "download"
    /\ op.pc = "done"
    /\ op.remoteCalls = 2
    /\ syncResult = <<SyncFailed("Invalid KOLP file")>>
    /\ localFile = op.localAtStart
    /\ parseKolpFile(localFile[1]) # <<>>

\* C30: Sync uses the refreshed token.  When a handler's refresh succeeds,
\* the token it goes on with is the access token the refresh has just
\* stored, not the one loaded before; and every remote call the handler makes
\* from then on (find, delete, upload, download) carries that token.
SyncUsesRefreshedToken ==
    [][/\ (op.pc = "refreshing" /\ op'.newToken = "token")
            => /\ tokenFile' # <<>>
               /\ op'.token = tokenFile'[1].access_token
               /\ op'.token # op.rtokens[1].access_token
       /\ (op'.newToken = "token" /\ Len(op'.auth) > Len(op.auth))
            => /\ op.pc # "refreshing" => op'.token = op.token
               /\ \A k \in 1..Len(op'.auth) :
                     /\ op'.auth[k] = op'.token
                     /\ op'.auth[k] # op'.rtokens[1].access_token
      ]_vars

\* an upload that refreshed its token and then made all three remote calls
SyncUsesRefreshedTokenWitness ==
    /\ op.kind = "upload"
    /\ op.newToken = "token"
    /\ op.pc = "done"
    /\ Len(op.auth) = 3
    /\ syncResult[1].success

\* C28: Disconnect is final.  A token record that is absent is written again
\* only by a completed authorization, never by a step of a sync handler or
\* of the refresh it started.
DisconnectFinal ==
    [][(tokenFile = <<>> /\ tokenFile' # <<>>) => op' = op]_vars

-----------------------------------------------------------------------------
(* The account handlers google-status and google-disconnect.  ipc logs each *)
(* call: the handler, whether the token file existed when it ran, whether   *)
(* it threw (the renderer's invoke promise rejects), and what it returned.  *)

GoogleStatusNullCheck(tokens) ==
    [connected |-> TRUE,
     email     |-> IF tokens # <<>> THEN <<tokens[1].email>> ELSE <<>>,
     expiresAt |-> IF tokens # <<>> THEN <<tokens[1].expiry_date>> ELSE <<>>]

\* main.ts:649-659: the handler's answer for what loadTokens() returned
GoogleStatus(tokens) ==
    IF tokens # <<>>
    THEN [connected |-> TRUE, email |-> <<tokens[1].email>>,
          expiresAt |-> <<tokens[1].expiry_date>>]
    ELSE [connected |-> FALSE, email |-> <<>>, expiresAt |-> <<>>]

IpcCall(handler, threw, value) ==
    [handler |-> handler, had |-> tokenFile # <<>>, threw |-> threw,
     value |-> value]

\* main.ts:649-659
GoogleStatusCall ==
    /\ Len(ipc) < MaxCalls
    /\ ipc' = Append(ipc, IpcCall("google-status", FALSE,
                                  <<GoogleStatus(tokenFile)>>))
    /\ UNCHANGED <<storeVars, envVars, flow, listening, result, reqs,
                   timerFired, closeCalls, second, codecVars, syncVars>>

\* main.ts:661-664: nothing catches what deleteTokens() throws
GoogleDisconnectCall(unlink) ==
    /\ Len(ipc) < MaxCalls
    /\ LET d == deleteTokens(tokenFile, unlink)
       IN  /\ tokenFile' = d.file
           /\ ipc' = Append(ipc, IpcCall("google-disconnect", d.threw,
                         IF d.threw THEN <<>> ELSE <<[success |-> TRUE]>>))
    /\ UNCHANGED <<credFile, envVars, flow, listening, result, reqs,
                   timerFired, closeCalls, second, codecVars, syncVars>>

InitStore ==
    /\ tokenFile = <<>>
    /\ credFile = <<>>
    /\ now = 0
    /\ issued = 0
    /\ IdleAuth
    /\ IdleCodec
    /\ IdleSync

NextStore ==
    \/ \E cred \in Credentials, rt \in RefreshTokens, e \in ExpiresIn,
          persist \in {"ok", "credsFail"} : Authorize(cred, rt, e, persist)
    \/ GoogleStatusCall
    \/ \E unlink \in UnlinkOutcomes : GoogleDisconnectCall(unlink)

SpecStore == InitStore /\ [][NextStore]_vars

LastCall == ipc[Len(ipc)]

\* the step is a call of the handler
Calls(handler) ==
    /\ Len(ipc') = Len(ipc) + 1
    /\ ipc'[Len(ipc')].handler = handler

\* C21: no handler call lets an exception escape: every google-status and
\* google-disconnect call returns a result, whatever its file-system steps do.
NoHandlerThrows ==
    \A k \in 1..Len(ipc) : ~ipc[k].threw

\* C22: a google-disconnect call that returns leaves no token record and
\* answers {success: true}; a google-status call answers connected = true
\* with the record's email and expiry exactly when a token record is stored,
\* and connected = false with neither otherwise; with the calls serialized,
\* an absent record appears again only by a completed authorization.
DisconnectDeletesRecord ==
    [][/\ (Calls("google-disconnect") /\ ~ipc'[Len(ipc')].threw)
            => /\ tokenFile' = <<>>
               /\ ipc'[Len(ipc')].value = <<[success |-> TRUE]>>
       /\ Calls("google-status")
            => LET v == ipc'[Len(ipc')].value[1]
               IN  /\ ~ipc'[Len(ipc')].threw
                   /\ v.connected = (tokenFile # <<>>)
                   /\ v.connected => /\ v.email = <<tokenFile[1].email>>
                                     /\ v.expiresAt = <<tokenFile[1].expiry_date>>
                   /\ ~v.connected => v.email = <<>> /\ v.expiresAt = <<>>
       /\ (tokenFile = <<>> /\ tokenFile' # <<>>) => issued' = issued + 1
      ]_vars

\* a disconnect that removed a stored record, then a status call answering
\* "not connected"
DisconnectWitness ==
    \E k \in 1..(Len(ipc) - 1) :
        /\ ipc[k].handler = "google-disconnect" /\ ipc[k].had /\ ~ipc[k].threw
        /\ ipc[k + 1].handler = "google-status"
        /\ ~ipc[k + 1].value[1].connected
        /\ credFile # <<>>

\* C23: deleteTokens on an absent token file changes nothing, leaves the
\* credentials record as it is and raises no error; and after a call that
\* returned the token file is absent, so a second call in a row is that no-op.
IdempotentDelete ==
    [][Calls("google-disconnect")
         => /\ tokenFile = <<>> => /\ ~ipc'[Len(ipc')].threw
                                   /\ tokenFile' = <<>>
                                   /\ credFile' = credFile
            /\ ~ipc'[Len(ipc')].threw => tokenFile' = <<>> /\ credFile' = credFile
            /\ (Len(ipc) > 0 /\ LastCall.handler = "google-disconnect"
                  /\ ~LastCall.threw /\ tokenFile = <<>>)
                 => storeVars' = storeVars /\ ~ipc'[Len(ipc')].threw
      ]_vars

\* two disconnects in a row, the first of which removed a stored record
IdempotentDeleteWitness ==
    \E k \in 1..(Len(ipc) - 1) :
        /\ ipc[k].handler = "google-disconnect" /\ ipc[k].had /\ ~ipc[k].threw
        /\ ipc[k + 1].handler = "google-disconnect"
        /\ ~ipc[k + 1].had /\ ~ipc[k + 1].threw
        /\ tokenFile = <<>>
        /\ credFile # <<>>

-----------------------------------------------------------------------------
(* OAuth authorization flow: startGoogleAuth *)

StateValues == {"s1", "s2"}                 \* crypto.randomBytes(16) hex
Codes       == {"authcode", "forged"}
Paths       == {"/callback", "/favicon.ico"}

\* first resolve() wins; later calls on a settled promise do nothing
Resolve(res, r) == IF res = <<>> THEN <<r>> ELSE res

Failed(msg) == [success |-> FALSE, email |-> NoParam, error |-> msg]

Succeeded(email) == [success |-> TRUE, email |-> email, error |-> NoParam]

StateMatchesLoose(returnedState, state) ==
    returnedState = NoParam \/ returnedState = state

\* main.ts:198  `returnedState !== state` is the negation
StateMatches(returnedState, state) == returnedState = state

\* what the token endpoint can answer to an authorization_code grant
ExchangeOutcomes(code) ==
    IF code = "authcode" THEN {"tokens", "notoken", "neterr", "badjson"}
                         ELSE {"notoken", "neterr", "badjson"}

UserInfoOutcomes == {"email", "noemail", "neterr", "badjson"}

PersistOutcomes == {"ok", "tokensFail", "credsFail"}

ErrorMessage(outcome) ==
    CASE outcome = "neterr"     -> "socket hang up"
      [] outcome = "badjson"    -> "Unexpected token < in JSON"
      [] outcome = "tokensFail" -> "EACCES: google_tokens.json"
      [] outcome = "credsFail"  -> "EACCES: google_credentials.json"
      [] OTHER                  -> "error"

NewRequest(path, code, st, pc, status) ==
    [path |-> path, code |-> code, st |-> st, pc |-> pc, status |-> status,
     outcome |-> "none", tok |-> <<>>]

\* main.ts:178-190, 247-254: state generated, server created and bound,
\* browser opened, timer armed
StartGoogleAuth(cred) ==
    /\ flow = <<>>
    /\ \E s \in StateValues : flow' = <<[state |-> s, cred |-> cred]>>
    /\ listening' = TRUE
    /\ UNCHANGED <<result, reqs, timerFired, closeCalls, storeVars, envVars, codecVars, syncVars,
                   second, ipc>>

\* main.ts:191-207: the request handler up to its first await
HandleRequest(path, code, st) ==
    /\ flow # <<>>
    /\ listening
    /\ Len(reqs) < MaxRequests
    /\ IF path # "/callback"
       THEN \* no branch for other paths: the request is left unanswered
            UNCHANGED <<reqs, listening, result, closeCalls>>
       ELSE IF ~StateMatches(st, flow[1].state)
       THEN /\ reqs' = Append(reqs, NewRequest(path, code, st, "done", 400))
            /\ listening' = FALSE
            /\ closeCalls' = closeCalls + 1
            /\ result' = Resolve(result, Failed("Invalid state"))
       ELSE /\ reqs' = Append(reqs, NewRequest(path, code, st, "exchange", 0))
            /\ UNCHANGED <<listening, result, closeCalls>>
    /\ UNCHANGED <<flow, timerFired, storeVars, envVars, codecVars, syncVars,
                   second, ipc>>

\* main.ts:238-243: the catch block
CatchBlock(i, outcome) ==
    /\ reqs' = [reqs EXCEPT ![i].pc = "done", ![i].status = 500,
                            ![i].outcome = outcome]
    /\ listening' = FALSE
    /\ closeCalls' = closeCalls + 1
    /\ result' = Resolve(result, Failed(ErrorMessage(outcome)))

\* main.ts:207-210 with exchangeCodeForTokens (258-292): the token endpoint
\* answered, or the request failed
ExchangeResponse(i, outcome, expiresIn) ==
    /\ i \in 1..Len(reqs)
    /\ reqs[i].pc = "exchange"
    /\ outcome \in ExchangeOutcomes(reqs[i].code)
    /\ CASE outcome = "tokens" ->
              /\ issued < MaxIssued
              /\ issued' = issued + 1
              /\ reqs' = [reqs EXCEPT ![i].pc = "userinfo",
                            ![i].tok = <<[access_token |-> issued + 1,
                                          refresh_token |-> "rt",
                                          expires_in |-> expiresIn]>>]
              /\ UNCHANGED <<listening, result, closeCalls, now>>
         [] outcome = "notoken" ->
              \* `if (tokenResponse.access_token)` has no else branch: the
              \* handler returns without answering, closing or resolving
              /\ reqs' = [reqs EXCEPT ![i].pc = "done", ![i].outcome = outcome]
              /\ UNCHANGED <<listening, result, closeCalls, envVars>>
         [] OTHER ->
              /\ CatchBlock(i, outcome)
              /\ UNCHANGED envVars
    /\ UNCHANGED <<flow, timerFired, storeVars, codecVars, syncVars,
                   second, ipc>>

UserInfoResponseNoCredentials(i, outcome, persist) ==
    /\ i \in 1..Len(reqs)
    /\ reqs[i].pc = "userinfo"
    /\ tokenFile' = saveTokens([access_token |-> reqs[i].tok[1].access_token,
                                refresh_token |-> reqs[i].tok[1].refresh_token,
                                expiry_date |-> now + reqs[i].tok[1].expires_in * 1000,
                                email |-> "user@example.com"])
    /\ reqs' = [reqs EXCEPT ![i].pc = "done", ![i].status = 200,
                            ![i].outcome = outcome]
    /\ listening' = FALSE
    /\ closeCalls' = closeCalls + 1
    /\ result' = Resolve(result, Succeeded("user@example.com"))
    /\ UNCHANGED <<credFile, flow, timerFired, envVars, codecVars, syncVars,
                   second, ipc>>

\* main.ts:210-237 with getUserInfo (294-314): the profile endpoint answered,
\* or the request failed; then tokens and credentials are written
UserInfoResponse(i, outcome, persist) ==
    /\ i \in 1..Len(reqs)
    /\ reqs[i].pc = "userinfo"
    /\ LET tok    == reqs[i].tok[1]
           email  == IF outcome = "email" THEN "user@example.com" ELSE NoParam
           tokens == [access_token |-> tok.access_token,
                      refresh_token |-> tok.refresh_token,
                      expiry_date |-> now + tok.expires_in * 1000,
                      email |-> email]
       IN  IF outcome \in {"neterr", "badjson"}
           THEN /\ CatchBlock(i, outcome)
                /\ UNCHANGED storeVars
           ELSE CASE persist = "tokensFail" ->
                     /\ CatchBlock(i, persist)
                     /\ UNCHANGED storeVars
                  [] persist = "credsFail" ->
                     /\ tokenFile' = saveTokens(tokens)
                     /\ CatchBlock(i, persist)
                     /\ UNCHANGED credFile
                  [] OTHER ->
                     /\ tokenFile' = saveTokens(tokens)
                     /\ credFile' = saveCredentials(flow[1].cred)
                     /\ reqs' = [reqs EXCEPT ![i].pc = "done",
                                   ![i].status = 200, ![i].outcome = outcome]
                     /\ listening' = FALSE
                     /\ closeCalls' = closeCalls + 1
                     /\ result' = Resolve(result, Succeeded(email))
    /\ UNCHANGED <<flow, timerFired, envVars, codecVars, syncVars,
                   second, ipc>>

TimeoutNoResolve ==
    /\ flow # <<>>
    /\ ~timerFired
    /\ timerFired' = TRUE
    /\ listening' = FALSE
    /\ closeCalls' = closeCalls + 1
    /\ UNCHANGED <<result, flow, reqs, storeVars, envVars, codecVars, syncVars,
                   second, ipc>>

TimeoutNoClose ==
    /\ flow # <<>>
    /\ ~timerFired
    /\ timerFired' = TRUE
    /\ result' = Resolve(result, Failed("Authentication timeout"))
    /\ UNCHANGED <<listening, closeCalls, flow, reqs, storeVars, envVars, codecVars, syncVars,
                   second, ipc>>

\* main.ts:251-254: the timer is never cleared, so it fires in every flow
Timeout ==
    /\ flow # <<>>
    /\ ~timerFired
    /\ timerFired' = TRUE
    /\ listening' = FALSE
    /\ closeCalls' = closeCalls + 1
    /\ result' = Resolve(result, Failed("Authentication timeout"))
    /\ UNCHANGED <<flow, reqs, storeVars, envVars, codecVars, syncVars,
                   second, ipc>>

SecondStartSharedState(s) ==
    /\ flow # <<>>
    /\ result = <<>>
    /\ listening
    /\ second = <<>>
    /\ second' = <<[state |-> s, bound |-> FALSE, result |-> <<>>]>>
    /\ flow' = <<[flow[1] EXCEPT !.state = s]>>
    /\ UNCHANGED <<listening, result, reqs, timerFired, closeCalls, ipc,
                   storeVars, envVars, codecVars, syncVars>>

\* main.ts:178-190, 247-254 invoked while the first flow is pending: the
\* invocation has its own state, server and timer; port 8089 is held by the
\* first flow's server, so listen() fails and the server emits 'error',
\* which nothing listens for
SecondStart(s) ==
    /\ flow # <<>>
    /\ result = <<>>
    /\ listening
    /\ second = <<>>
    /\ second' = <<[state |-> s, bound |-> FALSE, result |-> <<>>]>>
    /\ UNCHANGED <<flow, listening, result, reqs, timerFired, closeCalls, ipc,
                   storeVars, envVars, codecVars, syncVars>>

\* main.ts:251-254 of the second invocation: close() of its server, which
\* never listened, and resolve
SecondTimeout ==
    /\ second # <<>>
    /\ second[1].result = <<>>
    /\ second' = <<[second[1] EXCEPT
                      !.result = <<Failed("Authentication timeout")>>]>>
    /\ UNCHANGED <<flow, listening, result, reqs, timerFired, closeCalls, ipc,
                   storeVars, envVars, codecVars, syncVars>>

InitAuth ==
    /\ tokenFile = <<>>
    /\ credFile = <<>>
    /\ now = 0
    /\ issued = 0
    /\ IdleAuth
    /\ IdleCodec
    /\ IdleSync

NextAuth ==
    \/ \E cred \in Credentials : StartGoogleAuth(cred)
    \/ \E path \in Paths, code \in Codes, st \in StateValues \cup {NoParam} :
          HandleRequest(path, code, st)
    \/ \E i \in 1..MaxRequests, outcome \in {"tokens", "notoken", "neterr", "badjson"},
          e \in ExpiresIn : ExchangeResponse(i, outcome, e)
    \/ \E i \in 1..MaxRequests, outcome \in UserInfoOutcomes,
          persist \in PersistOutcomes : UserInfoResponse(i, outcome, persist)
    \/ Timeout

SpecAuth == InitAuth /\ [][NextAuth]_vars

\* the flow of one client, and a second invocation made while it is pending
NextAuthSecond ==
    \/ StartGoogleAuth([clientId |-> "cidA", clientSecret |-> "secA"])
    \/ \E path \in Paths, code \in Codes, st \in StateValues \cup {NoParam} :
          HandleRequest(path, code, st)
    \/ \E i \in 1..MaxRequests, outcome \in {"tokens", "notoken", "neterr", "badjson"} :
          ExchangeResponse(i, outcome, 61)
    \/ \E i \in 1..MaxRequests, outcome \in UserInfoOutcomes,
          persist \in PersistOutcomes : UserInfoResponse(i, outcome, persist)
    \/ Timeout
    \/ \E s \in StateValues : SecondStart(s)
    \/ SecondTimeout

SpecAuthSecond == InitAuth /\ [][NextAuthSecond]_vars

\* C26: Single concurrent flow.  A startGoogleAuth invoked while a flow is
\* pending never binds the port and never resolves as successful; its start
\* and its timeout leave the first flow's state value, listener, requests,
\* result and timer, and the stored records, exactly as they were; and a
\* started flow's state value and credentials never change.
SecondFlowHarmless ==
    [][/\ second' # second
            => /\ UNCHANGED <<flow, listening, result, reqs, timerFired,
                              closeCalls, storeVars, envVars>>
               /\ ~second'[1].bound
               /\ second'[1].result # <<>> => ~second'[1].result[1].success
       /\ flow # <<>> => flow' = flow
      ]_vars

\* the second invocation was made and timed out, and the first flow
\* resolved as successful and stored its tokens
SecondFlowWitness ==
    /\ second # <<>>
    /\ second[1].result # <<>>
    /\ second[1].state # flow[1].state
    /\ result # <<>>
    /\ result[1].success
    /\ tokenFile # <<>>

\* the timer armed at main.ts:251 is never cleared and the event loop runs
\* its callback once the five minutes have passed
SpecAuthLive == SpecAuth /\ WF_vars(Timeout)

\* C1: State-mismatch rejection.  Whenever the handler is called for a
\* callback whose state differs from the flow's (or is missing), that step
\* answers 400, stops the listener, starts no code exchange, writes neither
\* the token file nor the credentials file, and resolves the flow with the
\* failure 'Invalid state', whatever the code is.
StateMismatchRejected ==
    [][(Len(reqs') = Len(reqs) + 1 /\ reqs'[Len(reqs')].st # flow[1].state) =>
          /\ reqs'[Len(reqs')].status = 400
          /\ reqs'[Len(reqs')].pc = "done"
          /\ \A i \in 1..Len(reqs) : reqs'[i] = reqs[i]
          /\ ~listening'
          /\ closeCalls' = closeCalls + 1
          /\ tokenFile' = tokenFile
          /\ credFile' = credFile
          /\ issued' = issued
          /\ result' = <<Failed("Invalid state")>>]_vars

\* a callback with the genuine code and a wrong state was rejected while an
\* earlier callback's exchange was still in flight
StateMismatchWitness ==
    /\ Len(reqs) = 2
    /\ reqs[1].pc = "exchange"
    /\ reqs[2].code = "authcode"
    /\ reqs[2].st # flow[1].state
    /\ reqs[2].status = 400
    /\ result = <<Failed("Invalid state")>>

\* C2: Listener released on every exit path.  In every reachable state, a
\* flow that has resolved has had its listener stopped.
ListenerStoppedWhenResolved ==
    result # <<>> => (~listening /\ closeCalls >= 1)

\* a flow resolved as successful, its listener stopped
ListenerStoppedWitness ==
    /\ result # <<>>
    /\ result[1].success
    /\ ~listening

\* C12: Timeout.  When the timer fires and no request has reached the callback
\* path, that step stops the listener, writes nothing and resolves the flow
\* with the failure 'Authentication timeout'; and every flow that was started
\* eventually resolves.
TimeoutResolves ==
    /\ [][(~timerFired /\ timerFired' /\ reqs = <<>>) =>
              /\ ~listening'
              /\ closeCalls' = closeCalls + 1
              /\ result' = <<Failed("Authentication timeout")>>
              /\ tokenFile' = tokenFile
              /\ credFile' = credFile]_vars
    /\ (flow # <<>>) ~> (result # <<>>)

\* the timer fired on a flow no callback had reached
TimeoutWitness ==
    /\ timerFired
    /\ reqs = <<>>
    /\ ~listening
    /\ closeCalls = 1
    /\ result = <<Failed("Authentication timeout")>>

OneExchangePerFlow ==
    Cardinality({i \in 1..Len(reqs) : StateMatches(reqs[i].st, flow[1].state)}) <= 1

\* the callback requests of the flow for which exchangeCodeForTokens was
\* called, and those for which getUserInfo was called
ExchangeRequests == {i \in 1..Len(reqs) : reqs[i].status # 400}

ProfileRequests == {i \in 1..Len(reqs) : reqs[i].tok # <<>>}

\* C20: No automatic retry.  Within one startGoogleAuth invocation the code
\* exchange request is sent at most once and the profile request is sent at
\* most once.
AuthRequestKindsOnce ==
    Cardinality(ExchangeRequests) <= 1 /\ Cardinality(ProfileRequests) <= 1

\* C3: The listener is torn down exactly once: server.close() is never called
\* a second time in one flow.
ClosedAtMostOnce == closeCalls <= 1

\* C4: Exchange outcome.  A callback with the matching state whose handler
\* has finished left the flow resolved, the listener stopped and the browser
\* answered (200 on success, 500 on failure).
ExchangeResolvesFlow ==
    \A i \in 1..Len(reqs) :
        (reqs[i].st = flow[1].state /\ reqs[i].pc = "done") =>
            /\ result # <<>>
            /\ ~listening
            /\ reqs[i].status \in {200, 500}

\* C27: a flow that resolved as failed has written neither the token record
\* nor the credentials record.
FailedFlowPersistedNothing ==
    (result # <<>> /\ ~result[1].success) =>
        /\ tokenFile = <<>>
        /\ credFile = <<>>

\* C29: whenever a token record is stored, a credentials record is stored
\* too, holding the client id and secret of the flow that obtained the tokens.
TokensImplyCredentials ==
    tokenFile # <<>> =>
        /\ credFile # <<>>
        /\ credFile[1] = flow[1].cred

-----------------------------------------------------------------------------
(* The codec as a state machine: a snapshot is encoded, the bytes are       *)
(* possibly damaged on the way, and decoded.                                *)

SeqsUpTo(S, n) == UNION {[1..k -> S] : k \in 0..n}

\* "a", quote, backslash, line feed / e-acute, euro sign, U+1F600
NoteTexts == { <<97, 34, 92, 10>>, <<233, 8364, 128512>> }

\* a note {t: text}, and one whose member d is undefined
NoteValues ==
    {JObj(<< <<116>> >>, <<JStr(s)>>) : s \in NoteTexts}
      \cup {JObj(<< <<116>>, <<100>> >>, <<JStr(<<97>>), JUndef>>)}

AttachmentValues ==
    { JObj(<<>>, <<>>), JObj(<< <<97, 46, 112, 110, 103>> >>, <<JStr(<<81, 81, 61, 61>>)>>) }

\* KolpFile['data'] (main.ts:115-121)
Snapshot(notes, attachments) ==
    JObj(<< <<110, 111, 116, 101, 115>>, <<102, 111, 108, 100, 101, 114, 115>>,
            <<116, 97, 103, 115>>, <<115, 101, 116, 116, 105, 110, 103, 115>>,
            <<97, 116, 116, 97, 99, 104, 109, 101, 110, 116, 115>> >>,
         <<JArr(notes), JArr(<<>>), JArr(<<>>), JObj(<<>>, <<>>), attachments>>)

Snapshots ==
    {Snapshot(n, a) : n \in SeqsUpTo(NoteValues, MaxNotes), a \in AttachmentValues}

Timestamps == {0, 3600000}

\* bytes that are no container: empty, shorter than the magic, an error body
RawBuffers == { <<>>, <<75>>, <<75, 79, 76>>, <<123, 125>>,
                <<107, 111, 108, 112, 1>> }

TamperBytes == {0, 34, 93, 255}

FlipBit(b, k) ==
    LET w == 2 ^ k IN IF (b \div w) % 2 = 1 THEN b - w ELSE b + w

Encode ==
    /\ klp = <<>>
    /\ edit = "none"
    /\ klp' = createKolpFile(snapshot, now)
    /\ edit' = "encoded"
    /\ UNCHANGED <<snapshot, decoded, storeVars, envVars, authVars, syncVars>>

\* one bit of the payload region changes
FlipPayloadBit(pos, k) ==
    /\ edit = "encoded"
    /\ decoded = <<>>
    /\ 49 + pos <= Len(klp)
    /\ klp' = [klp EXCEPT ![49 + pos] = FlipBit(klp[49 + pos], k)]
    /\ edit' = "payload"
    /\ UNCHANGED <<snapshot, decoded, storeVars, envVars, authVars, syncVars>>

\* one byte of the payload region changes
OverwritePayloadByte(pos, b) ==
    /\ edit = "encoded"
    /\ decoded = <<>>
    /\ 49 + pos <= Len(klp)
    /\ klp[49 + pos] # b
    /\ klp' = [klp EXCEPT ![49 + pos] = b]
    /\ edit' = "payload"
    /\ UNCHANGED <<snapshot, decoded, storeVars, envVars, authVars, syncVars>>

\* one byte of the magic changes
OverwriteMagic(pos, b) ==
    /\ edit = "encoded"
    /\ decoded = <<>>
    /\ klp[pos] # b
    /\ klp' = [klp EXCEPT ![pos] = b]
    /\ edit' = "magic"
    /\ UNCHANGED <<snapshot, decoded, storeVars, envVars, authVars, syncVars>>

\* only the first n bytes of the container arrive
Truncate(n) ==
    /\ edit = "encoded"
    /\ decoded = <<>>
    /\ n < Len(klp)
    /\ klp' = SubSeq(klp, 1, n)
    /\ edit' = "truncated"
    /\ UNCHANGED <<snapshot, decoded, storeVars, envVars, authVars, syncVars>>

\* bytes that createKolpFile never wrote
Receive(raw) ==
    /\ klp = <<>>
    /\ edit = "none"
    /\ klp' = raw
    /\ edit' = "raw"
    /\ UNCHANGED <<snapshot, decoded, storeVars, envVars, authVars, syncVars>>

Decode ==
    /\ edit # "none"
    /\ decoded = <<>>
    /\ decoded' = <<ParseOutcome(klp)>>
    /\ UNCHANGED <<snapshot, klp, edit, storeVars, envVars, authVars, syncVars>>

Digits2(n) == <<48 + ((n \div 10) % 10), 48 + (n % 10)>>

\* Date.prototype.toISOString for a time within the epoch's first day
ISOString(t) ==
    <<49, 57, 55, 48, 45, 48, 49, 45, 48, 49, 84>>
      \o Digits2(t \div 3600000) \o <<58>> \o Digits2((t \div 60000) % 60)
      \o <<58>> \o Digits2((t \div 1000) % 60)
      \o <<46, 48 + ((t \div 100) % 10)>> \o Digits2(t % 100) \o <<90>>

\* main.ts:566-574: the data kolp-save-local encodes
PlaceholderData(t) ==
    JObj(<< <<110, 111, 116, 101, 115>>, <<102, 111, 108, 100, 101, 114, 115>>,
            <<116, 97, 103, 115>>, <<115, 101, 116, 116, 105, 110, 103, 115>>,
            <<97, 116, 116, 97, 99, 104, 109, 101, 110, 116, 115>>,
            <<101, 120, 112, 111, 114, 116, 68, 97, 116, 101>>,
            <<118, 101, 114, 115, 105, 111, 110>> >>,
         <<JArr(<<>>), JArr(<<>>), JArr(<<>>), JObj(<<>>, <<>>), JObj(<<>>, <<>>),
           JStr(ISOString(t)), JStr(<<49, 46, 48, 46, 48>>)>>)

\* main.ts:558-582: the handler is given the folder path only; klp stands for
\* <folder>/kolp_backup.klp.  (A failing write is caught and changes nothing.)
KolpSaveLocal ==
    /\ klp = <<>>
    /\ edit = "none"
    /\ klp' = createKolpFile(PlaceholderData(now), now)
    /\ edit' = "saved"
    /\ UNCHANGED <<snapshot, decoded, storeVars, envVars, authVars, syncVars>>

\* main.ts:585-600, the backup file being there
KolpLoadLocal ==
    /\ edit = "saved"
    /\ decoded = <<>>
    /\ decoded' = <<ParseOutcome(klp)>>
    /\ UNCHANGED <<snapshot, klp, edit, storeVars, envVars, authVars, syncVars>>

InitCodec ==
    /\ tokenFile = <<>>
    /\ credFile = <<>>
    /\ issued = 0
    /\ IdleAuth
    /\ IdleSync
    /\ now \in Timestamps
    /\ snapshot \in Snapshots
    /\ klp = <<>>
    /\ edit = "none"
    /\ decoded = <<>>

NextCodec ==
    \/ Encode
    \/ \E pos \in 1..(Len(klp) - 49), k \in 0..7 : FlipPayloadBit(pos, k)
    \/ \E pos \in 1..(Len(klp) - 49), b \in TamperBytes : OverwritePayloadByte(pos, b)
    \/ \E pos \in 1..4, b \in {0, 75, 107, 255} : OverwriteMagic(pos, b)
    \/ \E n \in 0..(Len(klp) - 1) : Truncate(n)
    \/ \E raw \in RawBuffers : Receive(raw)
    \/ Decode
    \/ KolpSaveLocal
    \/ KolpLoadLocal

SpecCodec == InitCodec /\ [][NextCodec]_vars

\* the payload region of the bytes at hand
Payload == Slice(klp, 49, Len(klp))

\* C8: Round-trip.  Decoding the bytes createKolpFile made of a snapshot
\* succeeds; the data it returns is the snapshot after a JSON round trip, the
\* version is 1 and the checksum is the one written into the header.
RoundTrip ==
    (edit = "encoded" /\ decoded # <<>>) =>
        /\ decoded[1].file # <<>>
        /\ decoded[1].file[1].data = JsonRoundTrip(snapshot)
        /\ decoded[1].file[1].version = 1
        /\ decoded[1].file[1].checksum = Slice(klp, 13, 45)

\* a snapshot with characters of more than one byte was encoded and decoded
RoundTripWitness ==
    /\ edit = "encoded"
    /\ decoded # <<>>
    /\ decoded[1].file # <<>>
    /\ Len(Payload) > Len(JSONstringify(snapshot))

\* C24: Container layout.  The bytes createKolpFile made of a snapshot are 49
\* header bytes followed by the payload, the UTF-8 bytes of the snapshot's
\* JSON text: bytes 0-3 are "KOLP", byte 4 is 1, bytes 13-44 are the first 32
\* hex characters of the payload's SHA-256, bytes 45-48 hold the payload's
\* byte length little-endian, and the whole is 49 + that length long.
ContainerLayout ==
    edit = "encoded" =>
        LET N == Len(Utf8Bytes(JSONstringify(snapshot)))
        IN  /\ Len(klp) = 49 + N
            /\ Slice(klp, 0, 4) = <<75, 79, 76, 80>>
            /\ klp[5] = 1
            /\ Payload = Utf8Bytes(JSONstringify(snapshot))
            /\ Slice(klp, 13, 45) = SubSeq(Sha256Hex(Payload), 1, 32)
            /\ klp[46] + 256 * klp[47] + 65536 * klp[48] + 16777216 * klp[49] = N

\* a snapshot whose JSON text has characters of more than one byte was
\* encoded and its container not yet decoded
ContainerLayoutWitness ==
    /\ edit = "encoded"
    /\ decoded = <<>>
    /\ Len(klp) > 49 + Len(JSONstringify(snapshot))
    /\ Len(JSONstringify(snapshot)) > 2

\* the value of an object's member
Member(obj, key) ==
    obj.kids[CHOOSE i \in 1..Len(obj.keys) : obj.keys[i] = key]

\* the members of a snapshot the renderer restores from a backup
DataKeys ==
    { <<110, 111, 116, 101, 115>>, <<102, 111, 108, 100, 101, 114, 115>>,
      <<116, 97, 103, 115>>, <<115, 101, 116, 116, 105, 110, 103, 115>>,
      <<97, 116, 116, 97, 99, 104, 109, 101, 110, 116, 115>> }

\* C25: Local-folder backup.  What kolp-load-local decodes from the file
\* kolp-save-local wrote has the notes, folders, tags, settings and
\* attachments of the application's current snapshot.
LocalBackupCarriesSnapshot ==
    (edit = "saved" /\ decoded # <<>>) =>
        /\ decoded[1].file # <<>>
        /\ \A key \in DataKeys :
              Member(decoded[1].file[1].data, key)
                = Member(JsonRoundTrip(snapshot), key)

\* C9: Tamper detection.  After one bit or one byte of the payload region of
\* an encoded container changed (header intact), decoding returns no data
\* and reports the checksum failure; whatever decode returns for encoded or
\* tampered bytes is the encoded snapshot.
TamperDetected ==
    /\ (edit = "payload" /\ decoded # <<>>) =>
           /\ decoded[1].file = <<>>
           /\ decoded[1].error = "Checksum verification failed"
    /\ (edit \in {"encoded", "payload"} /\ decoded # <<>> /\ decoded[1].file # <<>>) =>
           decoded[1].file[1].data = JsonRoundTrip(snapshot)

\* a tampered payload that is still well-formed JSON was rejected
TamperWitness ==
    /\ edit = "payload"
    /\ decoded # <<>>
    /\ decoded[1].file = <<>>
    /\ JSONparse(Utf8Text(Payload)) # <<>>

\* C10: Bad magic rejection.  Bytes whose first four are not "KOLP", or that
\* are fewer than four, decode to no data, whatever follows them.
BadMagicRejected ==
    (decoded # <<>> /\ (Len(klp) < 4 \/ SubSeq(klp, 1, 4) # KOLP_MAGIC)) =>
        decoded[1].file = <<>>

\* a container valid but for one byte of its magic was rejected
BadMagicWitness ==
    /\ edit = "magic"
    /\ decoded # <<>>
    /\ decoded[1].file = <<>>
    /\ decoded[1].error = "Invalid KOLP file format"
    /\ ParseOutcome(KOLP_MAGIC \o Slice(klp, 4, Len(klp))).file # <<>>

\* C11: Truncation is fatal.  Every strict prefix of a container that
\* createKolpFile wrote, shorter than the header included, decodes to no
\* data: parseKolpFile returns null with an error logged, never a partly
\* recovered snapshot.
TruncationRejected ==
    (edit = "truncated" /\ decoded # <<>>) =>
        /\ decoded[1].file = <<>>
        /\ decoded[1].error # ""

\* a container cut inside its payload, the header intact, was rejected
TruncationWitness ==
    /\ edit = "truncated"
    /\ Len(klp) > 49
    /\ decoded # <<>>
    /\ decoded[1].file = <<>>
    /\ decoded[1].error = "Checksum verification failed"


====
